---- MODULE Spec2Model ----
(***************************************************************************)
(* A model of stoichkit's equation balancer (src/src/solve.rs):            *)
(*   balance            the pipeline element check -> matrix -> solve ->   *)
(*                      rationalize -> scale -> verify                     *)
(*   check_balance      the per-element recount of the final coefficients  *)
(*   limit_denominator  the continued-fraction loop                        *)
(* The SVD solve (nalgebra) is a library call: its result is modelled as   *)
(* any vector of f32 values of the right length, or an error.              *)
(***************************************************************************)
EXTENDS Integers, Sequences, FiniteSets, TLC

VARIABLES
    \* ---- one call of balance -------------------------------------------
    pc,               \* position in balance
    reagents,         \* input: Vec<Compound>
    products,         \* input: Vec<Compound>
    all_atoms,        \* reagent_atoms.iter().chain(product_atoms.iter())
    all_compounds,    \* filled by push_atom
    matrix,           \* Vec<f64>, row-major
    solution,         \* coefficients: Vec<f32>
    rational_coeffs,  \* Vec<Rational>
    rational_limited, \* Vec<Rational>
    denominators,     \* Vec<u64>
    scale,            \* u64
    scaled,           \* the products f * scale, before numer() is taken
    scaled_coeffs,    \* Vec<u64>
    result,           \* Result<BalancedReaction, String>
    \* ---- one call of limit_denominator, statement by statement ---------
    ld_pc, given, max_denominator, p0, q0, p1, q1, n, d, a, q2, iters, ld_result,
    \* ---- the scale fold on its own -------------------------------------
    sc_pc, sc_denominators, sc_scale

balVars == <<pc, reagents, products, all_atoms, all_compounds, matrix, solution,
             rational_coeffs, rational_limited, denominators, scale, scaled,
             scaled_coeffs, result>>
ldVars == <<ld_pc, given, max_denominator, p0, q0, p1, q1, n, d, a, q2, iters, ld_result>>
scVars == <<sc_pc, sc_denominators, sc_scale>>
vars == <<balVars, ldVars, scVars>>

(***************************************************************************)
(* Bounds of the model.                                                    *)
(***************************************************************************)
\* compounds in one equation, both sides together
MaxCompounds == 3
\* an f32 of the model is +-m / 2^e with m <= MaxMant, e <= MaxExp
MaxMant == 1
MaxExp == 1
\* limit_denominator on its own: numerators, denominators and small ceilings
MaxNumer == 260
MaxDenom == 128
MaxSmallCeiling == 3
\* the scale fold on its own: length of the list, size of a denominator
MaxDenominators == 3
MaxDenomValue == 6

\* the ceiling balance passes to limit_denominator
DenominatorCeiling == 100

(***************************************************************************)
(* Sequences and arithmetic helpers.                                       *)
(***************************************************************************)
SeqsUpTo(S, k) == UNION {[1..i -> S] : i \in 0..k}

Abs(x) == IF x < 0 THEN -x ELSE x

Max(x, y) == IF x >= y THEN x ELSE y

RECURSIVE Pow2(_)
Pow2(k) == IF k = 0 THEN 1 ELSE 2 * Pow2(k - 1)

RECURSIVE gcd(_, _)
gcd(x, y) == IF y = 0 THEN x ELSE gcd(y, x % y)

\* num::integer::lcm
lcm(x, y) == IF x = 0 \/ y = 0 THEN 0 ELSE (x \div gcd(x, y)) * y

(***************************************************************************)
(* rug::Rational: always canonical (lowest terms, positive denominator).   *)
(***************************************************************************)
Rational(num, den) ==
    LET g == gcd(Abs(num), den) IN [n |-> num \div g, d |-> den \div g]

RatAbs(r) == [n |-> Abs(r.n), d |-> r.d]

RatMul(r, s) == Rational(r.n * s.n, r.d * s.d)

RatSub(r, s) == Rational(r.n * s.d - s.n * r.d, r.d * s.d)

RatLe(r, s) == r.n * s.d <= s.n * r.d

\* Option::None of Rational::from_f32
None == [n |-> 0, d |-> 0]

(***************************************************************************)
(* f32 values the solver may hand back: finite +-m / 2^e, or non-finite.   *)
(***************************************************************************)
NonFinite == [nan |-> TRUE, neg |-> FALSE, m |-> 0, e |-> 0]

F32 == {[nan |-> FALSE, neg |-> s, m |-> mm, e |-> ee] :
            s \in BOOLEAN, mm \in 0..MaxMant, ee \in 0..MaxExp}
       \cup {NonFinite}

\* one representation per value: the mantissa is odd unless the exponent is 0,
\* and zero is written once (-0.0 converts to the same Rational as 0.0)
Normal(f) == f.nan \/ ((f.e = 0 \/ f.m % 2 = 1) /\ (f.m = 0 => ~f.neg /\ f.e = 0))

Floats == {f \in F32 : Normal(f)}

\* Rational::from_f32: the exact binary value, None for NaN and infinities
from_f32(c) ==
    IF c.nan THEN None
    ELSE Rational((IF c.neg THEN -1 ELSE 1) * c.m, Pow2(c.e))

(***************************************************************************)
(* limit_denominator (solve.rs 179-233).  The loop state is the record     *)
(* [p0, q0, p1, q1, n, d]; one iteration evaluates a and q2, then either   *)
(* breaks or commits the next convergent.                                  *)
(***************************************************************************)
loop_init(g) == [p0 |-> 0, q0 |-> 1, p1 |-> 1, q1 |-> 0, n |-> g.n, d |-> g.d]

\* a = n / d
loop_a(s) == s.n \div s.d

\* q2 = q0 + (a * q1)
loop_q2(s) == s.q0 + (loop_a(s) * s.q1)

\* loop_commit without `q1 = q1_new`
loop_commit_stale_q1(s) ==
    [p0 |-> s.p1, q0 |-> s.q1,
     p1 |-> s.p0 + (loop_a(s) * s.p1), q1 |-> s.q1,
     n |-> s.d, d |-> s.n - (loop_a(s) * s.d)]

\* the assignments after the break test
loop_commit(s) ==
    [p0 |-> s.p1, q0 |-> s.q1,
     p1 |-> s.p0 + (loop_a(s) * s.p1), q1 |-> loop_q2(s),
     n |-> s.d, d |-> s.n - (loop_a(s) * s.d)]

RECURSIVE loop(_, _)
loop(s, maxd) ==
    IF loop_q2(s) > maxd THEN s ELSE loop(loop_commit(s), maxd)

\* loop_k rounded up instead of down
loop_k_over(s, maxd) == ((maxd - s.q0) \div s.q1) + 1

\* k = (max_denominator - q0) / q1
loop_k(s, maxd) == (maxd - s.q0) \div s.q1

bound1(s, maxd) ==
    Rational(s.p0 + loop_k(s, maxd) * s.p1, s.q0 + loop_k(s, maxd) * s.q1)

bound2(s) == Rational(s.p1, s.q1)

\* nearer comparing the signed differences, without abs()
nearer_signed(b1, b2, g) ==
    IF RatLe(RatSub(b1, g), RatSub(b2, g)) THEN b1 ELSE b2

\* if d1f.abs() <= d2f.abs() { bound1 } else { bound2 }
nearer(b1, b2, g) ==
    IF RatLe(RatAbs(RatSub(b1, g)), RatAbs(RatSub(b2, g))) THEN b1 ELSE b2

limit_denominator(g, maxd) ==
    IF maxd < 1 \/ g.d <= maxd THEN g
    ELSE LET s == loop(loop_init(g), maxd)
         IN  nearer(bound1(s, maxd), bound2(s), g)

(***************************************************************************)
(* Compounds.  A Compound is a formula and its atoms map (element ->       *)
(* count, never 0); a Reactant pairs a compound with a molar coefficient.  *)
(***************************************************************************)
Compound_H == [formula |-> "H", atoms |-> ("H" :> 1)]
Compound_H2 == [formula |-> "H2", atoms |-> ("H" :> 2)]
Compound_O2 == [formula |-> "O2", atoms |-> ("O" :> 2)]
Compound_H2O == [formula |-> "H2O", atoms |-> ("H" :> 2) @@ ("O" :> 1)]

Compounds == {Compound_H, Compound_H2, Compound_O2, Compound_H2O}

Elements == UNION {DOMAIN c.atoms : c \in Compounds}

\* Reactant::of_compound
of_compound(c, coeff) == [compound |-> c, molar_coefficient |-> coeff]

\* BalancedReaction::new
BalancedReaction(rs, ps) == [reagents |-> rs, products |-> ps]

(***************************************************************************)
(* balance, stage by stage.                                                *)
(***************************************************************************)
\* lines 15-26: the element keys of one side
atoms_of(side) == UNION {DOMAIN side[i].atoms : i \in DOMAIN side}

\* the orders in which a HashSet may be iterated
Orders(S) ==
    {s \in [1..Cardinality(S) -> S] :
        \A i, j \in 1..Cardinality(S) : i # j => s[i] # s[j]}

\* compound.atoms.get(element).cloned().unwrap_or(0)
atom_count(compound, element) ==
    IF element \in DOMAIN compound.atoms THEN compound.atoms[element] ELSE 0

\* the closure push_atom: appends to all_compounds and to matrix
push_atom(acc, input_compounds, element) ==
    [compounds |-> acc.compounds \o input_compounds,
     matrix |-> acc.matrix \o
                [i \in DOMAIN input_compounds |->
                    atom_count(input_compounds[i], element)]]

\* build_matrix pushing the products before the reagents
RECURSIVE build_matrix_products_first(_, _, _, _)
build_matrix_products_first(acc, atoms, rs, ps) ==
    IF atoms = <<>> THEN acc
    ELSE build_matrix_products_first(
             push_atom(push_atom(acc, ps, Head(atoms)), rs, Head(atoms)),
             Tail(atoms), rs, ps)

\* lines 61-65: for element in all_atoms { push reagents; push products }
RECURSIVE build_matrix(_, _, _, _)
build_matrix(acc, atoms, rs, ps) ==
    IF atoms = <<>> THEN acc
    ELSE build_matrix(push_atom(push_atom(acc, rs, Head(atoms)), ps, Head(atoms)),
                      Tail(atoms), rs, ps)

\* itertools combinations(2), in its order
RECURSIVE combinations2(_)
combinations2(v) ==
    IF Len(v) < 2 THEN <<>>
    ELSE [j \in 1..(Len(v) - 1) |-> <<v[1], v[j + 1]>>] \o combinations2(Tail(v))

RECURSIVE fold_max_lcm(_, _)
fold_max_lcm(acc, combos) ==
    IF combos = <<>> THEN acc
    ELSE fold_max_lcm(Max(acc, lcm(Head(combos)[1], Head(combos)[2])), Tail(combos))

\* lines 113-117
compute_scale(denoms) == fold_max_lcm(1, combinations2(denoms))

\* lines 119-127: f * scale, then f.numer() (to_u64 succeeds: the numerator
\* is non-negative after abs() and small)
scale_rational(f, sc) == RatMul(f, Rational(sc, 1))

scaled_numer(f) == f.n

\* lines 130-135: zip stops at the shorter of the two; `coeff as u32` keeps
\* the value, the coefficients here being far below 2^32
zip_reactants(compounds, coeffs) ==
    [i \in 1..(IF Len(compounds) <= Len(coeffs) THEN Len(compounds) ELSE Len(coeffs)) |->
        of_compound(compounds[i], coeffs[i])]

\* check_balance's fold: element -> sum of count * coefficient, keyed by the
\* elements of the side's compounds (an entry is made even when it adds 0)
RECURSIVE element_total(_, _)
element_total(side, e) ==
    IF side = <<>> THEN 0
    ELSE atom_count(Head(side).compound, e) * Head(side).molar_coefficient
         + element_total(Tail(side), e)

element_totals(side) ==
    [e \in UNION {DOMAIN side[i].compound.atoms : i \in DOMAIN side} |->
        element_total(side, e)]

\* check_balance comparing the key sets only
check_balance_keys(reactants, prods) ==
    DOMAIN element_totals(reactants) = DOMAIN element_totals(prods)

check_balance(reactants, prods) == element_totals(reactants) = element_totals(prods)

(***************************************************************************)
(* Result<BalancedReaction, String>.  The kind of an Err stands for its    *)
(* message; the first Err also carries the two set differences it prints.  *)
(***************************************************************************)
NoReaction == BalancedReaction(<<>>, <<>>)

Pending == [kind |-> "Pending", missing_products |-> {}, missing_reagents |-> {},
            reaction |-> NoReaction]

Err(kind) == [kind |-> kind, missing_products |-> {}, missing_reagents |-> {},
              reaction |-> NoReaction]

Ok(reaction) == [kind |-> "Ok", missing_products |-> {}, missing_reagents |-> {},
                 reaction |-> reaction]

\* element_check testing one inclusion only
element_check_subset(rs, ps) ==
    IF ~(atoms_of(rs) \subseteq atoms_of(ps))
    THEN [kind |-> "UnbalanceableFormula",
          missing_products |-> atoms_of(rs) \ atoms_of(ps),
          missing_reagents |-> atoms_of(ps) \ atoms_of(rs),
          reaction |-> NoReaction]
    ELSE Pending

\* lines 27-36
element_check(rs, ps) ==
    IF atoms_of(rs) # atoms_of(ps)
    THEN [kind |-> "UnbalanceableFormula",
          missing_products |-> atoms_of(rs) \ atoms_of(ps),
          missing_reagents |-> atoms_of(ps) \ atoms_of(rs),
          reaction |-> NoReaction]
    ELSE Pending

\* lines 130-145: zip, split_at(reagents.len()), check_balance
verify(compounds, coeffs, mid) ==
    LET zipped == zip_reactants(compounds, coeffs)
    IN  IF mid > Len(zipped) THEN Err("Panic")
        ELSE LET reagents_result == SubSeq(zipped, 1, mid)
                 products_result == SubSeq(zipped, mid + 1, Len(zipped))
             IN  IF check_balance(reagents_result, products_result)
                 THEN Ok(BalancedReaction(reagents_result, products_result))
                 ELSE Err("VerificationFailure")

BalIdle ==
    /\ pc = "idle" /\ reagents = <<>> /\ products = <<>>
    /\ all_atoms = <<>> /\ all_compounds = <<>> /\ matrix = <<>>
    /\ solution = <<>> /\ rational_coeffs = <<>> /\ rational_limited = <<>>
    /\ denominators = <<>> /\ scale = 0 /\ scaled = <<>> /\ scaled_coeffs = <<>>
    /\ result = Pending

LdIdle ==
    /\ ld_pc = "idle" /\ given = None /\ max_denominator = 0
    /\ p0 = 0 /\ q0 = 0 /\ p1 = 0 /\ q1 = 0 /\ n = 0 /\ d = 0 /\ a = 0 /\ q2 = 0
    /\ iters = 0 /\ ld_result = None

ScIdle == sc_pc = "idle" /\ sc_denominators = <<>> /\ sc_scale = 0

\* a call of balance with any two lists of compounds
InitBalance ==
    /\ pc = "start"
    /\ reagents \in SeqsUpTo(Compounds, MaxCompounds)
    /\ products \in SeqsUpTo(Compounds, MaxCompounds - Len(reagents))
    /\ all_atoms = <<>> /\ all_compounds = <<>> /\ matrix = <<>>
    /\ solution = <<>> /\ rational_coeffs = <<>> /\ rational_limited = <<>>
    /\ denominators = <<>> /\ scale = 0 /\ scaled = <<>> /\ scaled_coeffs = <<>>
    /\ result = Pending

Init == InitBalance /\ LdIdle /\ ScIdle

\* lines 15-36
CheckElements ==
    /\ pc = "start"
    /\ result' = element_check(reagents, products)
    /\ pc' = IF result'.kind = "Pending" THEN "ElementsChecked" ELSE "done"
    /\ UNCHANGED <<reagents, products, all_atoms, all_compounds, matrix, solution,
                   rational_coeffs, rational_limited, denominators, scale, scaled,
                   scaled_coeffs>>
    /\ UNCHANGED <<ldVars, scVars>>

\* lines 37-71: the two sets are iterated in an order the hasher decides
BuildMatrix ==
    /\ pc = "ElementsChecked"
    /\ \E ro \in Orders(atoms_of(reagents)), po \in Orders(atoms_of(products)) :
          LET built == build_matrix([compounds |-> <<>>, matrix |-> <<>>],
                                    ro \o po, reagents, products)
          IN  /\ all_atoms' = ro \o po
              /\ all_compounds' = built.compounds
              /\ matrix' = built.matrix
    /\ pc' = "MatrixBuilt"
    /\ UNCHANGED <<reagents, products, solution, rational_coeffs, rational_limited,
                   denominators, scale, scaled, scaled_coeffs, result>>
    /\ UNCHANGED <<ldVars, scVars>>

\* lines 72-80: `len - 1` underflows with no compound at all (a panic, or a
\* panic in columns_range_pair); the solve itself is the library's
Solve ==
    /\ pc = "MatrixBuilt"
    /\ IF Len(reagents) + Len(products) = 0
       THEN /\ result' = Err("Panic") /\ pc' = "done" /\ solution' = solution
       ELSE \E failed \in BOOLEAN :
              IF failed
              THEN /\ result' = Err("SolverFailure") /\ pc' = "done"
                   /\ solution' = solution
              ELSE /\ solution' \in [1..(Len(reagents) + Len(products) - 1) -> Floats]
                   /\ pc' = "Solved" /\ result' = result
    /\ UNCHANGED <<reagents, products, all_atoms, all_compounds, matrix,
                   rational_coeffs, rational_limited, denominators, scale, scaled,
                   scaled_coeffs>>
    /\ UNCHANGED <<ldVars, scVars>>

\* lines 82-98
Rationalize ==
    /\ pc = "Solved"
    /\ IF \E i \in DOMAIN solution : from_f32(solution[i]) = None
       THEN /\ result' = Err("RationalConversionFailure") /\ pc' = "done"
            /\ UNCHANGED <<rational_coeffs, rational_limited>>
       ELSE /\ rational_coeffs' = [i \in DOMAIN solution |-> from_f32(solution[i])]
            /\ rational_limited' =
                  [i \in DOMAIN solution |->
                      limit_denominator(RatAbs(rational_coeffs'[i]), DenominatorCeiling)]
            /\ pc' = "Rationalized" /\ result' = result
    /\ UNCHANGED <<reagents, products, all_atoms, all_compounds, matrix, solution,
                   denominators, scale, scaled, scaled_coeffs>>
    /\ UNCHANGED <<ldVars, scVars>>

\* lines 100-129
ScaleCoeffs ==
    /\ pc = "Rationalized"
    /\ denominators' = [i \in DOMAIN rational_limited |-> rational_limited[i].d]
    /\ scale' = compute_scale(denominators')
    /\ scaled' = [i \in DOMAIN rational_limited |->
                     scale_rational(rational_limited[i], scale')]
    /\ scaled_coeffs' = Append([i \in DOMAIN scaled' |-> scaled_numer(scaled'[i])], scale')
    /\ pc' = "Scaled"
    /\ UNCHANGED <<reagents, products, all_atoms, all_compounds, matrix, solution,
                   rational_coeffs, rational_limited, result>>
    /\ UNCHANGED <<ldVars, scVars>>

\* lines 130-145
Verify ==
    /\ pc = "Scaled"
    /\ result' = verify(all_compounds, scaled_coeffs, Len(reagents))
    /\ pc' = "done"
    /\ UNCHANGED <<reagents, products, all_atoms, all_compounds, matrix, solution,
                   rational_coeffs, rational_limited, denominators, scale, scaled,
                   scaled_coeffs>>
    /\ UNCHANGED <<ldVars, scVars>>

Next == CheckElements \/ BuildMatrix \/ Solve \/ Rationalize \/ ScaleCoeffs \/ Verify

Spec == Init /\ [][Next]_vars

(***************************************************************************)
(* limit_denominator on its own, one statement group per step.             *)
(***************************************************************************)
Ceilings == (0..MaxSmallCeiling) \cup {DenominatorCeiling}

\* the loop variables as the record the loop operators read
loop_state == [p0 |-> p0, q0 |-> q0, p1 |-> p1, q1 |-> q1, n |-> n, d |-> d]

InitLimit ==
    /\ ld_pc = "start"
    /\ given \in {Rational(nn, dd) : nn \in 0..MaxNumer, dd \in 1..MaxDenom}
    /\ max_denominator \in Ceilings
    /\ p0 = 0 /\ q0 = 0 /\ p1 = 0 /\ q1 = 0 /\ n = 0 /\ d = 0 /\ a = 0 /\ q2 = 0
    /\ iters = 0 /\ ld_result = None
    /\ BalIdle /\ ScIdle

\* lines 187-200
LimitEnter ==
    /\ ld_pc = "start"
    /\ IF max_denominator < 1 \/ given.d <= max_denominator
       THEN /\ ld_result' = given /\ ld_pc' = "done"
            /\ UNCHANGED <<p0, q0, p1, q1, n, d>>
       ELSE /\ p0' = loop_init(given).p0 /\ q0' = loop_init(given).q0
            /\ p1' = loop_init(given).p1 /\ q1' = loop_init(given).q1
            /\ n' = loop_init(given).n /\ d' = loop_init(given).d
            /\ ld_pc' = "loop" /\ ld_result' = ld_result
    /\ UNCHANGED <<given, max_denominator, a, q2, iters>>
    /\ UNCHANGED <<balVars, scVars>>

\* lines 203-221: one pass of the loop body; u64 division by zero panics
LimitIterate ==
    /\ ld_pc = "loop"
    /\ IF d = 0
       THEN /\ ld_pc' = "panic"
            /\ UNCHANGED <<p0, q0, p1, q1, n, d, a, q2, iters>>
       ELSE /\ a' = loop_a(loop_state)
            /\ q2' = loop_q2(loop_state)
            /\ iters' = iters + 1
            /\ IF q2' > max_denominator
               THEN /\ ld_pc' = "broke"
                    /\ UNCHANGED <<p0, q0, p1, q1, n, d>>
               ELSE /\ p0' = loop_commit(loop_state).p0
                    /\ q0' = loop_commit(loop_state).q0
                    /\ p1' = loop_commit(loop_state).p1
                    /\ q1' = loop_commit(loop_state).q1
                    /\ n' = loop_commit(loop_state).n
                    /\ d' = loop_commit(loop_state).d
                    /\ ld_pc' = "loop"
    /\ UNCHANGED <<given, max_denominator, ld_result>>
    /\ UNCHANGED <<balVars, scVars>>

\* lines 222-231
LimitFinish ==
    /\ ld_pc = "broke"
    /\ ld_result' = nearer(bound1(loop_state, max_denominator), bound2(loop_state), given)
    /\ ld_pc' = "done"
    /\ UNCHANGED <<given, max_denominator, p0, q0, p1, q1, n, d, a, q2, iters>>
    /\ UNCHANGED <<balVars, scVars>>

NextLimit == LimitEnter \/ LimitIterate \/ LimitFinish

SpecLimit == InitLimit /\ [][NextLimit]_vars

(***************************************************************************)
(* The scale fold on its own (lines 113-117).                              *)
(***************************************************************************)
InitScale ==
    /\ sc_pc = "start"
    /\ sc_denominators \in
          UNION {[1..i -> 1..MaxDenomValue] : i \in 1..MaxDenominators}
    /\ sc_scale = 0
    /\ BalIdle /\ LdIdle

FoldScale ==
    /\ sc_pc = "start"
    /\ sc_scale' = compute_scale(sc_denominators)
    /\ sc_pc' = "done"
    /\ UNCHANGED sc_denominators
    /\ UNCHANGED <<balVars, ldVars>>

NextScale == FoldScale

SpecScale == InitScale /\ [][NextScale]_vars

(***************************************************************************)
(* Properties of balance, stated of the behaviours of Spec.                 *)
(***************************************************************************)
\* atoms of element e on one side: sum of count(e) * molar_coefficient
RECURSIVE AtomSum(_, _, _)
AtomSum(side, e, i) ==
    IF i = 0 THEN 0
    ELSE (IF e \in DOMAIN side[i].compound.atoms THEN side[i].compound.atoms[e] ELSE 0)
            * side[i].molar_coefficient
         + AtomSum(side, e, i - 1)

Conserves(rs, ps) ==
    \A e \in Elements : AtomSum(rs, e, Len(rs)) = AtomSum(ps, e, Len(ps))

\* the input compounds, reagents then products, and their number
InputCompounds == reagents \o products
N == Len(reagents) + Len(products)

\* the final integer coefficients laid on the input compounds
FinalSide(from, to) ==
    [i \in 1..(to - from + 1) |->
        [compound |-> InputCompounds[from + i - 1],
         molar_coefficient |-> scaled_coeffs[from + i - 1]]]

ReagentElements == {e \in Elements : \E i \in DOMAIN reagents : e \in DOMAIN reagents[i].atoms}
ProductElements == {e \in Elements : \E i \in DOMAIN products : e \in DOMAIN products[i].atoms}

Returned == pc = "done"
ReturnedOk == pc = "done" /\ result.kind = "Ok"

\* C1 (Conservation): a returned BalancedReaction has, for every element, the
\* same atom total on both sides; and when the final integer coefficients do
\* not conserve some element, balance returns an error, never a reaction.
C1_Conservation ==
    /\ ReturnedOk =>
          Conserves(result.reaction.reagents, result.reaction.products)
    /\ (Returned /\ Len(scaled_coeffs) = N /\ N > 0
            /\ ~Conserves(FinalSide(1, Len(reagents)), FinalSide(Len(reagents) + 1, N)))
          => result.kind = "VerificationFailure"

\* C1 witnesses: 2 H2 + O2 = 2 H2O is returned
C1_Witness ==
    /\ ReturnedOk
    /\ reagents = <<Compound_H2, Compound_O2>> /\ products = <<Compound_H2O>>
    /\ scaled_coeffs = <<2, 1, 2>>

\* C2 (Positivity): every molar coefficient of a returned reaction is >= 1,
\* whatever vector the solver returned.
C2_Positivity ==
    ReturnedOk =>
        /\ \A i \in DOMAIN result.reaction.reagents :
              result.reaction.reagents[i].molar_coefficient >= 1
        /\ \A i \in DOMAIN result.reaction.products :
              result.reaction.products[i].molar_coefficient >= 1

\* C3 (Symmetry precondition): when the two sides' element sets differ, the
\* call ends at the element check with an error carrying both differences;
\* no matrix is built, no solve is attempted, no reaction is returned.
C3_SymmetryPrecondition ==
    (pc # "start" /\ ReagentElements # ProductElements) =>
        /\ pc = "done"
        /\ result.kind = "UnbalanceableFormula"
        /\ result.missing_products = ReagentElements \ ProductElements
        /\ result.missing_reagents = ProductElements \ ReagentElements
        /\ result.reaction = NoReaction
        /\ all_atoms = <<>> /\ all_compounds = <<>> /\ matrix = <<>>
        /\ solution = <<>> /\ scaled_coeffs = <<>>

\* C3 witness: H2 = O2 is refused, each side missing the other's element
C3_Witness ==
    /\ Returned /\ result.kind = "UnbalanceableFormula"
    /\ result.missing_products = {"H"} /\ result.missing_reagents = {"O"}

\* the solver's values as rationals, the last compound fixed at 1
Ratio(i) == IF i = N THEN Rational(1, 1) ELSE from_f32(solution[i])

\* Ratio(i) in units of 1 / 2^MaxExp
RatioUnits(i) == Ratio(i).n * (Pow2(MaxExp) \div Ratio(i).d)

RECURSIVE UnitSum(_, _, _)
UnitSum(e, from, to) ==
    IF to < from THEN 0
    ELSE (IF e \in DOMAIN InputCompounds[to].atoms THEN InputCompounds[to].atoms[e] ELSE 0)
            * RatioUnits(to)
         + UnitSum(e, from, to - 1)

\* the solve returned the exact positive ratios of a balance
ExactRatios ==
    /\ N >= 2 /\ Len(solution) = N - 1
    /\ \A i \in 1..(N - 1) : ~solution[i].nan
    /\ \A i \in 1..(N - 1) : Ratio(i).n > 0 /\ Ratio(i).d <= DenominatorCeiling
    /\ \A e \in Elements :
          UnitSum(e, 1, Len(reagents)) = UnitSum(e, Len(reagents) + 1, N)

RECURSIVE LcmOfAll(_)
LcmOfAll(v) == IF v = <<>> THEN 1 ELSE lcm(Head(v), LcmOfAll(Tail(v)))

\* the smallest positive integers in the ratios Ratio(1) : ... : Ratio(N)
Smallest(i) ==
    LET D == LcmOfAll([j \in 1..(N - 1) |-> Ratio(j).d])
    IN  (Ratio(i).n * D) \div Ratio(i).d

\* C4 (Smallest balance): when the element sets match and the solve returns
\* the exact positive ratios to the last compound, balance returns Ok with
\* the smallest positive integer coefficients in those ratios.
C4_SmallestBalance ==
    (Returned /\ ReagentElements = ProductElements /\ ExactRatios) =>
        /\ result.kind = "Ok"
        /\ \A i \in 1..Len(reagents) :
              result.reaction.reagents[i].molar_coefficient = Smallest(i)
        /\ \A i \in 1..Len(products) :
              result.reaction.products[i].molar_coefficient = Smallest(Len(reagents) + i)

\* C5 (Order and alignment): a returned reaction has one reactant per input
\* compound on each side, in input order; compound j < N carries the j-th
\* scaled coefficient and the last product carries the scale.
C5_Alignment ==
    ReturnedOk =>
        LET rr == result.reaction.reagents
            pr == result.reaction.products
            all == rr \o pr
        IN  /\ Len(rr) = Len(reagents) /\ Len(pr) = Len(products)
            /\ \A i \in DOMAIN rr : rr[i].compound = reagents[i]
            /\ \A i \in DOMAIN pr : pr[i].compound = products[i]
            /\ \A j \in 1..(N - 1) :
                  /\ all[j].molar_coefficient = scaled_coeffs[j]
                  /\ scaled_coeffs[j] =
                        RatMul(RatAbs(from_f32(solution[j])), Rational(scale, 1)).n
            /\ all[N].molar_coefficient = scale

\* C5 witness: two elements (four matrix rows), two reagents, distinct
\* coefficients: 2 H2 + O2 = 2 H2O
C5_Witness ==
    /\ ReturnedOk
    /\ Len(all_atoms) = 4 /\ Len(all_compounds) = 12
    /\ result.reaction.reagents =
          <<of_compound(Compound_H2, 2), of_compound(Compound_O2, 1)>>
    /\ result.reaction.products = <<of_compound(Compound_H2O, 2)>>

\* C7 (Scaling check): when some rational times the scale is not an integer,
\* balance fails with a scaling error and takes no coefficient from it.
C7_ScalingCheck ==
    (\E i \in DOMAIN scaled : scaled[i].d # 1) =>
        /\ result.kind = "ScalingFailure"
        /\ scaled_coeffs = <<>>

(***************************************************************************)
(* Properties of the scale fold, stated of the behaviours of SpecScale.     *)
(***************************************************************************)
\* C8 (Scale equals full LCM): the fold over the pairs' least common
\* multiples, from 1, equals the least common multiple of the whole list; for
\* a single denominator it is that denominator.
C8_ScaleIsLcm ==
    sc_pc = "done" => sc_scale = LcmOfAll(sc_denominators)

(***************************************************************************)
(* Properties of limit_denominator, stated of the behaviours of SpecLimit.  *)
(***************************************************************************)
\* one more evaluation of `a = n / d` and `q2 = ...` after an earlier one
NextIteration == ld_pc = "loop" /\ iters >= 1 /\ iters' = iters + 1

\* the loop has not run out of steps: until the break it can take another
\* pass, and it has made no more passes than the given denominator
LoopBounded ==
    /\ (ld_pc = "loop" => ENABLED LimitIterate)
    /\ (ld_pc \in {"loop", "broke"} => iters <= given.d)

\* C6 as stated (Termination of the continued-fraction loop): the divisor is
\* never 0 when `a = n / d` is evaluated, the loop is left through the break
\* with q2 > max_denominator after a bounded number of iterations, and q2
\* strictly increases from each iteration to the next.
C6_Original ==
    /\ [](ld_pc # "panic" /\ (ld_pc = "loop" => d # 0))
    /\ [](ld_pc = "broke" => q2 > max_denominator)
    /\ []LoopBounded
    /\ [][(ld_pc = "loop" /\ ld_pc' = "loop") => (d' < d /\ d' >= 1)]_vars
    /\ [][NextIteration => q2' > q2]_vars

\* C6 as amended: as above, but q2 only never decreases; it strictly
\* increases from the second iteration on (the first two candidates are both
\* 1 when the second quotient is 1).
C6_LoopTerminates ==
    /\ [](ld_pc # "panic" /\ (ld_pc = "loop" => d # 0))
    /\ [](ld_pc = "broke" => q2 > max_denominator)
    /\ []LoopBounded
    /\ [][(ld_pc = "loop" /\ ld_pc' = "loop") => (d' < d /\ d' >= 1)]_vars
    /\ [][NextIteration => (q2' >= q2 /\ (iters >= 2 => q2' > q2))]_vars

\* C6 witness: the loop of a call with ceiling 100 broke in its fourth pass
C6_Witness ==
    /\ ld_pc = "broke" /\ iters >= 4
    /\ max_denominator = DenominatorCeiling /\ given.d > max_denominator
    /\ q2 > max_denominator

\* C9 (Denominator bound): with ceiling 100 the result is a reduced rational
\* with denominator in 1..100; a rational whose denominator is already <= 100
\* comes back unchanged, so the function is a no-op on its own result.
C9_DenominatorBound ==
    (ld_pc = "done" /\ max_denominator = DenominatorCeiling) =>
        /\ ld_result.d >= 1 /\ ld_result.d <= DenominatorCeiling
        /\ ld_result.n >= 0 /\ gcd(ld_result.n, ld_result.d) = 1
        /\ (given.d <= DenominatorCeiling => ld_result = given)
        /\ limit_denominator(ld_result, DenominatorCeiling) = ld_result

\* C9 witness: a denominator above 100 was brought down
C9_Witness ==
    /\ ld_pc = "done" /\ max_denominator = DenominatorCeiling
    /\ given.d > DenominatorCeiling /\ given.n > given.d
    /\ ld_result.d <= DenominatorCeiling /\ ld_result # given

\* |xn/xd - given| <= |yn/yd - given|, for positive xd, yd
NoFarther(xn, xd, yn, yd) ==
    Abs(xn * given.d - given.n * xd) * yd <= Abs(yn * given.d - given.n * yd) * xd

\* the two candidates, from the loop variables as the loop left them
Candidate1 ==
    LET k == (max_denominator - q0) \div q1
    IN  [n |-> p0 + k * p1, d |-> q0 + k * q1]
Candidate2 == [n |-> p1, d |-> q1]

====
